---- MODULE Spec2Model ----
(***************************************************************************)
(* Model of the receipt print server (src/main.py, src/config_parser.py).  *)
(*                                                                         *)
(* Text is a sequence of one-character strings.  A Python int is modelled  *)
(* as a numeral [neg, mag] with mag its decimal digits, most significant   *)
(* first, because the payload integers are unbounded and format_rupiah     *)
(* converts them to a 53-bit float before printing them.                   *)
(***************************************************************************)
EXTENDS Integers, Sequences, FiniteSets, TLC

(***************************************************************************)
(* Bounds of the model.                                                    *)
(***************************************************************************)
\* longest items list of an order
MaxItems == 2
\* open sessions left behind on one printer before no further job is started
MaxStale == 1
\* longest left/right text and widest row of the justifier's own specification
MaxJustifyLen == 4
\* every amount of up to this many digits is formatted on its own
MaxAmountDigits == 2

(***************************************************************************)
(* Python integers as decimal numerals.                                    *)
(***************************************************************************)
Zeros(n) == [i \in 1..n |-> 0]

\* the numeral without its leading zeros (<<0>> for zero)
StripZeros(m) ==
    LET nz == {i \in 1..Len(m) : m[i] # 0}
        first == IF nz = {} THEN Len(m)
                 ELSE CHOOSE i \in nz : \A j \in nz : i <= j
    IN  IF Len(m) = 0 THEN <<0>> ELSE SubSeq(m, first, Len(m))

\* magnitude comparison: -1, 0, 1 (arguments without leading zeros)
CmpMag(a, b) ==
    IF Len(a) < Len(b) THEN -1
    ELSE IF Len(a) > Len(b) THEN 1
    ELSE LET df == {i \in 1..Len(a) : a[i] # b[i]}
         IN  IF df = {} THEN 0
             ELSE LET i == CHOOSE i \in df : \A j \in df : i <= j
                  IN  IF a[i] < b[i] THEN -1 ELSE 1

\* a + b: the carry into digit i is 1 when some lower digit pair overflows
\* and every pair between sums to 9
AddMag(a, b) ==
    LET n == (IF Len(a) > Len(b) THEN Len(a) ELSE Len(b)) + 1
        x == Zeros(n - Len(a)) \o a
        y == Zeros(n - Len(b)) \o b
        \* the nearest lower digit pair that does not sum to 9 decides
        open(i) == {j \in (i + 1)..n : x[j] + y[j] # 9}
        carry(i) == open(i) # {} /\
                    LET j == CHOOSE j \in open(i) : \A l \in open(i) : j <= l
                    IN  x[j] + y[j] >= 10
    IN  StripZeros([i \in 1..n |->
                       (x[i] + y[i] + (IF carry(i) THEN 1 ELSE 0)) % 10])

\* a - b for a >= b: the borrow from digit i is 1 when some lower digit of a
\* is smaller than b's and every pair between is equal
SubMag(a, b) ==
    LET n == Len(a)
        y == Zeros(n - Len(b)) \o b
        \* the nearest lower digit pair that differs decides
        open(i) == {j \in (i + 1)..n : a[j] # y[j]}
        borrow(i) == open(i) # {} /\
                     LET j == CHOOSE j \in open(i) : \A l \in open(i) : j <= l
                     IN  a[j] < y[j]
    IN  StripZeros([i \in 1..n |->
                       (a[i] - y[i] - (IF borrow(i) THEN 1 ELSE 0) + 10) % 10])

\* a * d for one digit d, by repeated addition
RECURSIVE MulDigit(_, _)
MulDigit(a, d) ==
    IF d = 0 THEN <<0>>
    ELSE LET p == MulDigit(a, d - 1)
         IN  IF Len(p) = 0 THEN p ELSE AddMag(p, a)

\* a * b, one digit of b at a time
RECURSIVE MulMag(_, _)
MulMag(a, b) ==
    IF b = <<>> THEN <<0>>
    ELSE LET n == Len(b)
             hi == MulMag(a, SubSeq(b, 1, n - 1))
             lo == MulDigit(a, b[n])
         IN  IF Len(hi) = 0 \/ Len(lo) = 0 THEN <<0>>
             ELSE AddMag(StripZeros(hi \o <<0>>), lo)

\* m div 2 and m mod 2: the carry into a digit is the parity of the digit
\* before it
Halve(m) ==
    [q |-> StripZeros([i \in 1..Len(m) |->
                ((IF i = 1 THEN 0 ELSE m[i - 1] % 2) * 10 + m[i]) \div 2]),
     r |-> m[Len(m)] % 2]

\* 2 * m: a digit of 5 or more carries 1 into the digit before it, and the
\* carry never propagates because the doubled digit is even
Double(m) ==
    LET n == Len(m)
    IN  StripZeros([i \in 1..(n + 1) |->
            (IF i = 1 THEN 0 ELSE (2 * m[i - 1]) % 10)
                + (IF i <= n /\ m[i] >= 5 THEN 1 ELSE 0)])

RECURSIVE DoubleTimes(_, _)
DoubleTimes(m, k) ==
    IF k = 0 THEN m
    ELSE LET d == Double(m)
         IN  IF Len(d) = 0 THEN d ELSE DoubleTimes(d, k - 1)

Num(neg, mag) == [neg |-> neg, mag |-> mag]

\* Python int multiplication and subtraction
IntMul(x, y) ==
    LET m == MulMag(x.mag, y.mag)
    IN  Num(x.neg # y.neg /\ m # <<0>>, m)

IntSub(x, y) ==
    IF x.neg = y.neg
    THEN LET c == CmpMag(x.mag, y.mag)
         IN  IF c = 0 THEN Num(FALSE, <<0>>)
             ELSE IF c > 0 THEN Num(x.neg, SubMag(x.mag, y.mag))
             ELSE Num(~x.neg, SubMag(y.mag, x.mag))
    ELSE Num(x.neg, AddMag(x.mag, y.mag))

\* 2^53: the integers below it are exactly representable as a float
TwoPow53 == <<9,0,0,7,1,9,9,2,5,4,7,4,0,9,9,2>>

\* the 53-bit significand of m, the bits shifted out (k of them) and, of
\* these, the highest (round) and whether any lower one is set (sticky)
RECURSIVE Significand(_, _, _, _)
Significand(m, k, round, sticky) ==
    IF CmpMag(m, TwoPow53) < 0
    THEN [m |-> m, k |-> k, round |-> round, sticky |-> sticky]
    ELSE LET h == Halve(m)
             s == IF round = 1 THEN 1 ELSE sticky
         IN  IF Len(h.q) = 0 \/ s < 0 THEN [m |-> m, k |-> k, round |-> 0, sticky |-> 0]
             ELSE Significand(h.q, k + 1, h.r, s)

\* int -> float (round to nearest, ties to even), as the exact integer value
\* of the resulting float
FloatOfInt(mag) ==
    LET s == Significand(mag, 0, 0, 0)
        odd == s.m[Len(s.m)] % 2 = 1
        up == s.round = 1 /\ (s.sticky = 1 \/ odd)
        sig == IF up THEN AddMag(s.m, <<1>>) ELSE s.m
    IN  DoubleTimes(sig, s.k)

(***************************************************************************)
(* Text.                                                                   *)
(***************************************************************************)
DigitChar == <<"0", "1", "2", "3", "4", "5", "6", "7", "8", "9">>

DigitsText(m) == [i \in 1..Len(m) |-> DigitChar[m[i] + 1]]

\* f"{n}" of an int
IntText(n) == (IF n.neg THEN <<"-">> ELSE <<>>) \o DigitsText(n.mag)

\* c * n
Repeat(c, n) == [i \in 1..n |-> c]

\* the "," grouping of the format specification: the digits in threes from
\* the right, a separator between the groups
GroupThousands(t) ==
    LET n == Len(t) + ((Len(t) - 1) \div 3)
    IN  [i \in 1..n |->
            LET r == n - i
            IN  IF r % 4 = 3 THEN "," ELSE t[Len(t) - (r - (r \div 4))]]

\* t.replace(old, new) for single characters
ReplaceChar(t, old, new) ==
    [i \in 1..Len(t) |-> IF t[i] = old THEN new ELSE t[i]]

format_rupiah(amount) ==
    <<"R", "p">> \o
    ReplaceChar((IF amount.neg THEN <<"-">> ELSE <<>>)
                    \o GroupThousands(DigitsText(FloatOfInt(amount.mag))),
                ",", ".")

\* an outcome of a call that may raise: exc = "" when it returned val
Returned(val) == [exc |-> "", val |-> val]
Raised(msg) == [exc |-> msg, val |-> <<>>]

\* left[:n] of Python
Slice(left, n) ==
    IF n >= 0 THEN SubSeq(left, 1, IF n < Len(left) THEN n ELSE Len(left))
    ELSE SubSeq(left, 1, IF Len(left) + n > 0 THEN Len(left) + n ELSE 0)

\* f"{left:<{n}}": a negative n reads as a sign in the format specification,
\* which a str refuses
PadLeftAligned_wrong(left, n) ==
    Returned(left \o Repeat(" ", n - Len(left)))

PadLeftAligned(left, n) ==
    IF n < 0 THEN Raised("Sign not allowed in string format specifier")
    ELSE Returned(left \o Repeat(" ", n - Len(left)))

create_justify_string_wrong(left, right, max_char_row) ==
    LET left_max_len == max_char_row - Len(right)
        padded == PadLeftAligned(left, left_max_len)
    IN  IF padded.exc # "" THEN padded
        ELSE Returned(padded.val \o right)

create_justify_string(left, right, max_char_row) ==
    LET right_len == Len(right)
        left_max_len == max_char_row - right_len
        cut == IF Len(left) > left_max_len THEN Slice(left, left_max_len)
               ELSE left
        padded == PadLeftAligned(cut, left_max_len)
    IN  IF padded.exc # "" THEN padded
        ELSE Returned(padded.val \o right)

(***************************************************************************)
(* Configuration (src/config_parser.py).                                   *)
(***************************************************************************)
printer_data ==
    [t \in {"POS-58", "POS-80", "EPSON TM-T82"} |->
        IF t = "POS-58" THEN [max_char_row |-> 32, image_width |-> 384]
        ELSE [max_char_row |-> 48, image_width |-> 512]]

\* Printer(...) with its __post_init__
Printer(printer_name, printer_type) ==
    IF printer_type \notin DOMAIN printer_data
    THEN Raised("Undefined printer type")
    ELSE Returned([printer_name |-> printer_name,
                   printer_type |-> printer_type,
                   profile |-> printer_data[printer_type]])

\* the document Config.write_default writes
write_default ==
    [host |-> "0.0.0.0", port |-> 9000, cors_origin |-> <<"*">>,
     printers |-> <<[printer_name |-> "POS-58", printer_type |-> "POS-58"]>>]

\* config.json as found at startup: absent, or holding a document
NoFile == [exists |-> FALSE, doc |-> write_default]
ConfigFiles ==
    {NoFile,
     [exists |-> TRUE, doc |-> write_default],
     [exists |-> TRUE,
      doc |-> [host |-> "127.0.0.1", port |-> 8000, cors_origin |-> <<"*">>,
               printers |-> <<[printer_name |-> "Kasir 1",
                               printer_type |-> "POS-58"],
                              [printer_name |-> "Dapur",
                               printer_type |-> "POS-80"]>>]],
     [exists |-> TRUE,
      doc |-> [host |-> "127.0.0.1", port |-> 8000, cors_origin |-> <<"*">>,
               printers |-> <<[printer_name |-> "Kasir 1",
                               printer_type |-> "XP-80"]>>]]}

\* config.json once Config.load has run: an existing file holds the default
\* document, a missing file is still missing
DiskAfterLoad(file) ==
    IF file.exists THEN [exists |-> TRUE, doc |-> write_default] ELSE file

\* Config.load: an existing file is overwritten with the default document
\* before it is read; a missing file makes open() raise
Config_load(file) ==
    IF ~file.exists THEN Raised("No such file or directory: './config.json'")
    ELSE LET json_obj == write_default
             made == [k \in 1..Len(json_obj.printers) |->
                         Printer(json_obj.printers[k].printer_name,
                                 json_obj.printers[k].printer_type)]
         IN  IF \E k \in 1..Len(made) : made[k].exc # ""
             THEN Raised("Undefined printer type")
             ELSE Returned([host |-> json_obj.host, port |-> json_obj.port,
                            cors_origin |-> json_obj.cors_origin,
                            printers |-> [k \in 1..Len(made) |-> made[k].val]])

(***************************************************************************)
(* Literals of src/main.py.                                                *)
(***************************************************************************)
NoPesanan == <<"N", "o", ".", " ", "P", "e", "s", "a", "n", "a", "n", ":", " ">>
WaktuLabel == <<"W", "a", "k", "t", "u", ":", " ">>
KasirLabel == <<"K", "a", "s", "i", "r", ":", " ">>
SubtotalLabel == <<"S", "u", "b", "t", "o", "t", "a", "l", ":", " ">>
BiayaLabel == <<"B", "i", "a", "y", "a", " ", "P", "e", "n", "a", "n", "g", "a", "n", "a", "n", ":", " ">>
TotalLabel == <<"T", "o", "t", "a", "l", ":", " ">>
MetodeLabel == <<"M", "e", "t", "o", "d", "e", " ", "B", "a", "y", "a", "r", ":", " ">>
BayarLabel == <<"B", "a", "y", "a", "r", ":", " ">>
KembalianLabel == <<"K", "e", "m", "b", "a", "l", "i", "a", "n", ":", " ">>
TerimaKasih == <<"T", "e", "r", "i", "m", "a", " ", "k", "a", "s", "i", "h", "!">>
ScanLine == <<"S", "c", "a", "n", " ", "Q", "R", " ", "d", "i", " ", "b", "a", "w", "a", "h", " ", "u", "n", "t", "u", "k", " ", "m", "e", "l", "i", "h", "a", "t", " ", "A", "R">>
HarapLine == <<"H", "a", "r", "a", "p", " ", "b", "a", "w", "a", " ", "k", "e", " ", "k", "a", "s", "i", "r", "!">>
HeaderAsset == "assets/Picto 7.png"
ScanAsset == "assets/AR QR.png"

payment_method_str ==
    [m \in {"cash", "e-wallet"} |->
        IF m = "cash" THEN <<"C", "a", "s", "h">>
        ELSE <<"E", "-", "W", "a", "l", "l", "e", "t">>]

\* range(3) of print_receipt
CopyCount_wrong == 1 + 1

CopyCount == 3

(***************************************************************************)
(* Device calls.  A call is a record; "keep" leaves a style field as it is.*)
(***************************************************************************)
Call(op, text, asset, width, align, bold, dbl) ==
    [op |-> op, text |-> text, asset |-> asset, width |-> width,
     align |-> align, bold |-> bold, dbl |-> dbl]

\* printer.image(get_image(image_width, asset(path)), center=True)
ImageCall(image_width, path) ==
    Call("image", <<>>, path, image_width, "keep", "keep", "keep")
TextCall(t) == Call("text", t, "", 0, "keep", "keep", "keep")
TextlnCall(t) == Call("textln", t, "", 0, "keep", "keep", "keep")
SetCall(align, bold) == Call("set", <<>>, "", 0, align, bold, "keep")
SetWithDefaultCall(align, bold, dbl) ==
    Call("set_with_default", <<>>, "", 0, align, bold, dbl)
CutCall == Call("cut", <<>>, "", 0, "keep", "keep", "keep")
CloseCall == Call("close", <<>>, "", 0, "keep", "keep", "keep")
\* an exception raised while the arguments of a call are evaluated
RaiseCall(msg) == Call("raise", <<>>, msg, 0, "keep", "keep", "keep")

\* printer.textln(create_justify_string(left, right, max_char_row))
JustifiedLn(left, right, max_char_row) ==
    LET row == create_justify_string(left, right, max_char_row)
    IN  IF row.exc # "" THEN RaiseCall(row.exc) ELSE TextlnCall(row.val)

Divider(max_char_row) == TextlnCall(Repeat("-", max_char_row))

\* for item in order.items
ItemRows_wrong(items, max_char_row) ==
    [k \in 1..Len(items) |->
        LET item == items[Len(items) + 1 - k]
            name_qty == item.name \o <<" ", "x">> \o IntText(item.quantity)
            total == format_rupiah(IntMul(item.price, item.quantity))
        IN  JustifiedLn(name_qty, total, max_char_row)]

ItemRows(items, max_char_row) ==
    [k \in 1..Len(items) |->
        LET item == items[k]
            name_qty == item.name \o <<" ", "x">> \o IntText(item.quantity)
            total == format_rupiah(IntMul(item.price, item.quantity))
        IN  JustifiedLn(name_qty, total, max_char_row)]

\* if order.transaction.payment_method == "cash"
HasChangeRow_wrong(transaction) == TRUE

HasChangeRow(transaction) == transaction.payment_method = "cash"

ChangeRow(transaction, max_char_row) ==
    IF HasChangeRow(transaction)
    THEN <<JustifiedLn(KembalianLabel, format_rupiah(transaction.change),
                       max_char_row)>>
    ELSE <<>>

\* if i == 0
HasScanBlock_wrong(i) == i <= 1

HasScanBlock(i) == i = 0

ScanBlock(i, image_width) ==
    IF HasScanBlock(i)
    THEN <<TextlnCall(<<"\n">>), TextlnCall(ScanLine), TextlnCall(<<>>),
           ImageCall(image_width, ScanAsset),
           SetWithDefaultCall("center", "off", "keep")>>
    ELSE <<>>

\* the order id line: the label, then the value in bold
OrderIdCalls_wrong(order) ==
    <<TextCall(NoPesanan),
      SetCall("keep", "on"),
      TextlnCall(IntText(order.order_id))>>

OrderIdCalls(order) ==
    <<TextCall(NoPesanan),
      SetCall("keep", "on"),
      TextlnCall(IntText(order.order_id)),
      SetCall("keep", "off")>>

\* one iteration of the loop of print_receipt
CopyCalls(order, i, max_char_row, image_width) ==
    OrderIdCalls(order)
    \o <<TextlnCall(WaktuLabel \o order.transaction.paid_at),
         TextlnCall(KasirLabel \o order.transaction.cashier),
         Divider(max_char_row),
         TextlnCall(<<>>),
         SetCall("keep", "off")>>
    \o ItemRows(order.items, max_char_row)
    \o <<TextlnCall(<<>>),
         Divider(max_char_row),
         JustifiedLn(SubtotalLabel, format_rupiah(order.subtotal),
                     max_char_row),
         JustifiedLn(BiayaLabel,
                     format_rupiah(IntSub(order.total, order.subtotal)),
                     max_char_row),
         Divider(max_char_row),
         SetCall("keep", "on"),
         JustifiedLn(TotalLabel, format_rupiah(order.total), max_char_row),
         Divider(max_char_row),
         SetCall("keep", "off"),
         JustifiedLn(MetodeLabel,
                     payment_method_str[order.transaction.payment_method],
                     max_char_row),
         JustifiedLn(BayarLabel, format_rupiah(order.transaction.paid_amount),
                     max_char_row)>>
    \o ChangeRow(order.transaction, max_char_row)
    \o <<Divider(max_char_row),
         SetCall("center", "keep"),
         TextlnCall(TerimaKasih)>>
    \o ScanBlock(i, image_width)
    \o <<CutCall, CloseCall>>

\* for i in range(3)
RECURSIVE CopiesFrom(_, _, _, _)
CopiesFrom(order, i, max_char_row, image_width) ==
    IF i >= CopyCount THEN <<>>
    ELSE CopyCalls(order, i, max_char_row, image_width)
             \o CopiesFrom(order, i + 1, max_char_row, image_width)

\* the calls of the try block of print_receipt, in order
ReceiptCalls(order, profile) ==
    LET max_char_row == profile.max_char_row
        image_width == profile.image_width
    IN  <<ImageCall(image_width, HeaderAsset),
          SetWithDefaultCall("left", "off", "keep"),
          Divider(max_char_row)>>
        \o CopiesFrom(order, 0, max_char_row, image_width)

\* the calls of the try block of print_number, in order
NumberCalls_wrong(order, profile) ==
    LET image_width == profile.image_width
    IN  <<ImageCall(image_width, HeaderAsset),
          TextlnCall(<<>>),
          SetWithDefaultCall("center", "on", "on"),
          TextlnCall(IntText(order.order_id)),
          TextlnCall(<<>>),
          SetCall("center", "keep"),
          TextlnCall(HarapLine),
          CutCall,
          CloseCall>>

NumberCalls(order, profile) ==
    LET image_width == profile.image_width
    IN  <<ImageCall(image_width, HeaderAsset),
          TextlnCall(<<>>),
          SetWithDefaultCall("center", "on", "on"),
          TextlnCall(IntText(order.order_id)),
          TextlnCall(<<>>),
          SetWithDefaultCall("center", "keep", "keep"),
          TextlnCall(HarapLine),
          CutCall,
          CloseCall>>

(***************************************************************************)
(* Request payloads the model draws from.                                  *)
(***************************************************************************)
Nat10(digits) == Num(FALSE, digits)

ItemSet ==
    {[name |-> <<"E", "s", " ", "T", "e", "h">>,
      price |-> Nat10(<<5, 0, 0, 0>>), quantity |-> Nat10(<<1, 2>>)],
     [name |-> <<"N", "a", "s", "i", " ", "G", "o", "r", "e", "n", "g", " ",
                 "S", "p", "e", "s", "i", "a", "l", " ", "J", "u", "m", "b", "o">>,
      price |-> Nat10(<<1, 2, 5, 0, 0, 0, 0>>), quantity |-> Nat10(<<1>>)]}

ItemLists == UNION {[1..n -> ItemSet] : n \in 0..MaxItems}

\* items with a quantity of zero and with a negative price: price and
\* quantity are declared int and nothing more
UncheckedItems ==
    {[name |-> <<"E", "s", " ", "T", "e", "h">>,
      price |-> Nat10(<<5, 0, 0, 0>>), quantity |-> Nat10(<<0>>)],
     [name |-> <<"E", "s", " ", "T", "e", "h">>,
      price |-> Num(TRUE, <<5, 0, 0, 0>>), quantity |-> Nat10(<<2>>)]}

\* subtotal, total, paid_amount, change of an ordinary sale
OrdinaryAmounts ==
    [subtotal |-> Nat10(<<3, 0, 0, 0, 0>>), total |-> Nat10(<<3, 2, 0, 0, 0>>),
     paid_amount |-> Nat10(<<5, 0, 0, 0, 0>>),
     change |-> Nat10(<<1, 8, 0, 0, 0>>)]

\* a total whose formatted value is longer than a row of 32 columns, and a
\* change whose formatted value is exactly 32 characters
UnusualAmounts ==
    {[subtotal |-> Nat10(<<3, 0, 0, 0, 0>>),
      total |-> Nat10(<<1>> \o Zeros(24)),
      paid_amount |-> Nat10(<<1>> \o Zeros(24)),
      change |-> Nat10(<<0>>)],
     [subtotal |-> Nat10(<<3, 0, 0, 0, 0>>), total |-> Nat10(<<3, 0, 0, 0, 0>>),
      paid_amount |-> Nat10(<<5, 0, 0, 0, 0>>),
      change |-> Nat10(<<1>> \o Zeros(22))]}

OrderOf(a, m, items) ==
    [order_id |-> Nat10(<<4, 2>>),
     subtotal |-> a.subtotal,
     total |-> a.total,
     transaction |->
         [cashier |-> <<"A", "n", "i">>,
          payment_method |-> m,
          paid_amount |-> a.paid_amount,
          change |-> a.change,
          paid_at |-> <<"1", "2", ":", "3", "0">>],
     items |-> items]

\* ordinary amounts with every items list and with each unchecked item; the
\* unusual ones with at most one item
Orders ==
    {OrderOf(OrdinaryAmounts, m, items) :
        m \in {"cash", "e-wallet"}, items \in ItemLists}
    \cup {OrderOf(OrdinaryAmounts, "cash", <<item>>) : item \in UncheckedItems}
    \cup {OrderOf(a, m, items) :
            a \in UnusualAmounts, m \in {"cash", "e-wallet"},
            items \in {l \in ItemLists : Len(l) <= 1}}

OrderNumbers == {[order_id |-> Nat10(<<4, 2>>)], [order_id |-> Num(TRUE, <<7>>)]}

\* messages of the faults a device call can raise
DeviceFaults == {"device busy", "disconnected"}

(***************************************************************************)
(* State.                                                                  *)
(***************************************************************************)
VARIABLES
    config,     \* the Config loaded at import time
    pc,         \* "idle", "running" (inside a handler's try block), "done"
    req,        \* the request being handled
    handle,     \* the Win32Raw object of the handler: made, name, index, open
    todo,       \* the device calls the handler has still to make
    style,      \* style state accumulated by set / set_with_default
    log,        \* the device calls executed for this request, in order
    opened,     \* sessions opened for this request
    closed,     \* sessions closed for this request
    fault,      \* message of the exception raised in the try block, or ""
    result,     \* status and body of the response, status 0 while none
    stale,      \* per printer: sessions still open whose handler has returned
    probe,      \* a call of create_justify_string on its own: arguments, result
    shown,      \* a call of format_rupiah on its own: argument, result
    disk        \* config.json: whether it exists, and the document it holds

vars == <<config, pc, req, handle, todo, style, log, opened, closed, fault,
          result, stale, probe, shown, disk>>

NoReq == [kind |-> "", printer_id |-> 0, order |-> [order_id |-> Nat10(<<0>>)]]
NoHandle == [made |-> FALSE, name |-> "", index |-> 0, open |-> FALSE]
NoResult == [status |-> 0, body |-> ""]
DefaultStyle == [align |-> "left", bold |-> "off", dbl |-> "off"]
NoProbe == [left |-> <<>>, right |-> <<>>, width |-> 0, done |-> FALSE,
            out |-> Returned(<<>>)]
NoShown == [amount |-> Nat10(<<0>>), done |-> FALSE, out |-> <<>>]

\* the selectors a client may send
PrinterIds == -1..(Len(config.printers) + 1)

\* printer_id < 1 or len(config.printers) < printer_id
InvalidSelector_wrong(printer_id) ==
    printer_id < 0 \/ Len(config.printers) < printer_id

InvalidSelector(printer_id) ==
    printer_id < 1 \/ Len(config.printers) < printer_id

\* position (from 1) of seq[i] for a Python index i
PyIndex(seq, i) == IF i >= 0 THEN i + 1 ELSE Len(seq) + i + 1

\* Win32Raw(config.printers[printer_id - 1].printer_name)
Win32Raw(printer_id) ==
    LET k == PyIndex(config.printers, printer_id - 1)
    IN  [made |-> TRUE, name |-> config.printers[k].printer_name,
         index |-> k, open |-> FALSE]

\* raise HTTPException(status_code=422, detail="Printer id isn't valid")
InvalidSelectorResponse == [status |-> 422, body |-> "Printer id isn't valid"]

\* return JSONResponse({"error": str(exc)}, 500)
ErrorResponse_wrong(exc) == [status |-> 500, body |-> "print failed"]

ErrorResponse(exc) == [status |-> 500, body |-> exc]

\* return JSONResponse({"message": "Struk berhasil dibuat"}, 201)
CreatedResponse == [status |-> 201, body |-> "Struk berhasil dibuat"]

\* set changes the fields it is given; set_with_default resets the others
ApplyStyle(st, call) ==
    IF call.op = "set"
    THEN [align |-> IF call.align = "keep" THEN st.align ELSE call.align,
          bold |-> IF call.bold = "keep" THEN st.bold ELSE call.bold,
          dbl |-> IF call.dbl = "keep" THEN st.dbl ELSE call.dbl]
    ELSE IF call.op = "set_with_default"
    THEN [align |-> IF call.align = "keep" THEN "left" ELSE call.align,
          bold |-> IF call.bold = "keep" THEN "off" ELSE call.bold,
          dbl |-> IF call.dbl = "keep" THEN "off" ELSE call.dbl]
    ELSE st

Cuts(l) == Cardinality({k \in 1..Len(l) : l[k].op = "cut"})

\* what the device has executed: the call, the style in effect and the copy
\* (number of cuts before it) it lands on
Executed(call, st, l) ==
    [op |-> call.op, text |-> call.text, asset |-> call.asset,
     width |-> call.width, align |-> st.align, bold |-> st.bold,
     dbl |-> st.dbl, copy |-> Cuts(l)]

WriteOps == {"image", "text", "textln", "set", "set_with_default", "cut"}

\* import of main.py: config = Config.load(), no request yet
Serving ==
    /\ \E file \in ConfigFiles :
          /\ Config_load(file).exc = ""
          /\ config = Config_load(file).val
          /\ disk = DiskAfterLoad(file)
    /\ pc = "idle"
    /\ req = NoReq
    /\ handle = NoHandle
    /\ todo = <<>>
    /\ style = DefaultStyle
    /\ log = <<>>
    /\ opened = 0
    /\ closed = 0
    /\ fault = ""
    /\ result = NoResult
    /\ stale = [k \in 1..Len(config.printers) |-> 0]

Init == Serving /\ probe = NoProbe /\ shown = NoShown

(***************************************************************************)
(* The handlers.  A handler is an async function without an await, so it   *)
(* runs to its return before another request is taken up; it is split at   *)
(* its device calls, each of which may raise.                              *)
(***************************************************************************)
\* entry of a handler up to its try block
Enter(kind, order, printer_id, calls) ==
    /\ pc = "idle"
    /\ \A k \in 1..Len(stale) : stale[k] <= MaxStale
    /\ req' = [kind |-> kind, printer_id |-> printer_id, order |-> order]
    /\ style' = DefaultStyle
    /\ log' = <<>>
    /\ opened' = 0
    /\ closed' = 0
    /\ fault' = ""
    /\ IF InvalidSelector(printer_id)
       THEN /\ result' = InvalidSelectorResponse
            /\ pc' = "done"
            /\ handle' = NoHandle
            /\ todo' = <<>>
       ELSE /\ result' = NoResult
            /\ pc' = "running"
            /\ handle' = Win32Raw(printer_id)
            /\ todo' = calls
    /\ UNCHANGED <<probe, shown, disk, config, stale>>

ProfileOf(printer_id) ==
    config.printers[PyIndex(config.printers, printer_id - 1)].profile

print_receipt(order, printer_id) ==
    Enter("print_receipt", order, printer_id,
          IF InvalidSelector(printer_id) THEN <<>>
          ELSE ReceiptCalls(order, ProfileOf(printer_id)))

print_number(order, printer_id) ==
    Enter("print_number", order, printer_id,
          IF InvalidSelector(printer_id) THEN <<>>
          ELSE NumberCalls(order, ProfileOf(printer_id)))

\* a device call that succeeds; a handle without a session opens one first
DeviceWrite ==
    /\ pc = "running"
    /\ todo # <<>>
    /\ Head(todo).op \in WriteOps
    /\ handle' = [handle EXCEPT !.open = TRUE]
    /\ opened' = IF handle.open THEN opened ELSE opened + 1
    /\ style' = ApplyStyle(style, Head(todo))
    /\ log' = Append(log, Executed(Head(todo), style', log))
    /\ todo' = Tail(todo)
    /\ UNCHANGED <<probe, shown, disk, config, pc, req, closed, fault, result, stale>>

\* printer.close()
DeviceClose ==
    /\ pc = "running"
    /\ todo # <<>>
    /\ Head(todo).op = "close"
    /\ handle' = [handle EXCEPT !.open = FALSE]
    /\ closed' = IF handle.open THEN closed + 1 ELSE closed
    /\ log' = Append(log, Executed(Head(todo), style, log))
    /\ todo' = Tail(todo)
    /\ UNCHANGED <<probe, shown, disk, config, pc, req, style, opened, fault, result, stale>>

\* except Exception as exc: the remaining calls are dropped
Except(exc) ==
    /\ fault' = exc
    /\ result' = ErrorResponse(exc)
    /\ pc' = "done"
    /\ todo' = <<>>

\* a device call raises; a handle without a session may have opened one
\* before the failure
DeviceFault(msg, open) ==
    /\ pc = "running"
    /\ todo # <<>>
    /\ Head(todo).op \in WriteOps \cup {"close"}
    /\ open \in (IF handle.open \/ Head(todo).op = "close"
                 THEN {handle.open} ELSE {TRUE, FALSE})
    /\ handle' = [handle EXCEPT !.open = open]
    /\ opened' = IF open /\ ~handle.open THEN opened + 1 ELSE opened
    /\ Except(msg)
    /\ UNCHANGED <<probe, shown, disk, config, req, style, log, closed, stale>>

\* the arguments of a call raise (create_justify_string)
ArgumentRaise ==
    /\ pc = "running"
    /\ todo # <<>>
    /\ Head(todo).op = "raise"
    /\ Except(Head(todo).asset)
    /\ UNCHANGED <<probe, shown, disk, config, req, handle, style, log, opened, closed, stale>>

\* the try block ran to its end
ReturnCreated ==
    /\ pc = "running"
    /\ todo = <<>>
    /\ result' = CreatedResponse
    /\ pc' = "done"
    /\ UNCHANGED <<probe, shown, disk, config, req, handle, todo, style, log, opened, closed,
                   fault, stale>>

\* the response is sent and the handler's frame, with its handle, is dropped
Respond ==
    /\ pc = "done"
    /\ pc' = "idle"
    /\ stale' = IF handle.made /\ handle.open
                THEN [stale EXCEPT ![handle.index] = @ + 1]
                ELSE stale
    /\ req' = NoReq
    /\ handle' = NoHandle
    /\ style' = DefaultStyle
    /\ log' = <<>>
    /\ opened' = 0
    /\ closed' = 0
    /\ fault' = ""
    /\ result' = NoResult
    /\ UNCHANGED <<probe, shown, disk, config, todo>>

\* a dropped handle is collected at some later time and its session ends
Collect(k) ==
    /\ stale[k] > 0
    /\ stale' = [stale EXCEPT ![k] = @ - 1]
    /\ UNCHANGED <<probe, shown, disk, config, pc, req, handle, todo, style, log, opened, closed,
                   fault, result>>

Next ==
    \/ \E order \in Orders, printer_id \in PrinterIds :
           print_receipt(order, printer_id)
    \/ \E order \in OrderNumbers, printer_id \in PrinterIds :
           print_number(order, printer_id)
    \/ DeviceWrite
    \/ DeviceClose
    \/ \E msg \in DeviceFaults, open \in BOOLEAN : DeviceFault(msg, open)
    \/ ArgumentRaise
    \/ ReturnCreated
    \/ Respond
    \/ \E k \in 1..Len(stale) : Collect(k)

Spec == Init /\ [][Next]_vars

(***************************************************************************)
(* The process from its start: the module level of main.py runs            *)
(* Config.load once, on whatever config.json is found, before any request  *)
(* is served.                                                              *)
(***************************************************************************)
NoConfig == [host |-> "", port |-> 0, cors_origin |-> <<>>, printers |-> <<>>]

InitStartup ==
    /\ disk \in ConfigFiles
    /\ config = NoConfig
    /\ pc = "import"
    /\ req = NoReq
    /\ handle = NoHandle
    /\ todo = <<>>
    /\ style = DefaultStyle
    /\ log = <<>>
    /\ opened = 0
    /\ closed = 0
    /\ fault = ""
    /\ result = NoResult
    /\ stale = <<>>
    /\ probe = NoProbe
    /\ shown = NoShown

\* config = Config.load(); an exception ends the process before uvicorn.run
Import ==
    /\ pc = "import"
    /\ LET loaded == Config_load(disk)
       IN  IF loaded.exc # ""
           THEN /\ pc' = "crashed"
                /\ UNCHANGED <<config, stale>>
           ELSE /\ pc' = "idle"
                /\ config' = loaded.val
                /\ stale' = [k \in 1..Len(loaded.val.printers) |-> 0]
    /\ disk' = DiskAfterLoad(disk)
    /\ UNCHANGED <<req, handle, todo, style, log, opened, closed, fault, result,
                   probe, shown>>

NextStartup == Import \/ Next

SpecStartup == InitStartup /\ [][NextStartup]_vars

(***************************************************************************)
(* create_justify_string on its own, over every left, right and width of   *)
(* the bounded sets.                                                       *)
(***************************************************************************)
TextsOver(alphabet, n) == UNION {[1..k -> alphabet] : k \in 0..n}

InitJustify ==
    /\ Serving
    /\ shown = NoShown
    /\ \E left \in TextsOver({"a", "b"}, MaxJustifyLen),
          right \in TextsOver({"R", "1"}, MaxJustifyLen),
          width \in 0..(MaxJustifyLen + 2) :
          probe = [left |-> left, right |-> right, width |-> width,
                   done |-> FALSE, out |-> Returned(<<>>)]

Justify ==
    /\ ~probe.done
    /\ probe' = [probe EXCEPT
                    !.out = create_justify_string(probe.left, probe.right,
                                                  probe.width),
                    !.done = TRUE]
    /\ UNCHANGED <<shown, disk, config, pc, req, handle, todo, style, log,
                   opened, closed, fault, result, stale>>

NextJustify == Justify

SpecJustify == InitJustify /\ [][NextJustify]_vars

(***************************************************************************)
(* format_rupiah on its own, over the short amounts and some long ones.    *)
(***************************************************************************)
ShortAmounts ==
    {Nat10(d) : d \in UNION {{f \in [1..n -> 0..9] : n = 1 \/ f[1] # 0} :
                                n \in 1..MaxAmountDigits}}

\* amounts around the first separator, around a million, and around 2^53
LongAmounts ==
    {Nat10(<<9, 9, 9>>), Nat10(<<1, 0, 0, 0>>), Nat10(<<1, 0, 0, 1>>),
     Nat10(<<9, 9, 9, 9, 9, 9>>), Nat10(<<1, 0, 0, 0, 0, 0, 0>>),
     Nat10(<<1, 2, 3, 4, 5, 6, 7, 8, 9>>),
     Nat10(SubMag(TwoPow53, <<1>>)), Nat10(TwoPow53),
     Nat10(AddMag(TwoPow53, <<1>>)), Nat10(AddMag(TwoPow53, <<2>>)),
     Nat10(AddMag(TwoPow53, <<3>>))}

InitRupiah ==
    /\ Serving
    /\ probe = NoProbe
    /\ \E amount \in ShortAmounts \cup LongAmounts :
          shown = [amount |-> amount, done |-> FALSE, out |-> <<>>]

Format ==
    /\ ~shown.done
    /\ shown' = [shown EXCEPT !.out = format_rupiah(shown.amount),
                              !.done = TRUE]
    /\ UNCHANGED <<probe, disk, config, pc, req, handle, todo, style, log,
                   opened, closed, fault, result, stale>>

NextRupiah == Format

SpecRupiah == InitRupiah /\ [][NextRupiah]_vars

(***************************************************************************)
(* Properties.                                                             *)
(***************************************************************************)
\* sessions open on printer k
OpenSessions(k) ==
    stale[k] + (IF handle.made /\ handle.open /\ handle.index = k THEN 1 ELSE 0)

ValidRange(printer_id) == 1 <= printer_id /\ printer_id <= Len(config.printers)

\* C1: a request with a valid selector has closed its device session exactly
\* once when its handler returns, whether every device call succeeded (201)
\* or one raised a fault (500).
C1_ClosedExactlyOnce ==
    (pc = "done" /\ ValidRange(req.printer_id) /\ opened >= 1) => closed = 1

\* C2: a printer_id below 1 or above the number of configured printers is
\* answered 422 with no handle made, no session opened and no call executed;
\* every printer_id in [1, N] passes and selects the printer at position
\* printer_id - 1 of the list.
C2_SelectorChecked ==
    pc # "idle" =>
        IF ValidRange(req.printer_id)
        THEN /\ result.status # 422
             /\ handle.made
             /\ handle.index = req.printer_id
             /\ handle.name = config.printers[req.printer_id].printer_name
        ELSE /\ pc = "done"
             /\ result = [status |-> 422, body |-> "Printer id isn't valid"]
             /\ ~handle.made
             /\ opened = 0
             /\ log = <<>>
             /\ todo = <<>>

\* a selector above the list was rejected
C2_Witness ==
    /\ pc = "done"
    /\ req.kind = "print_receipt"
    /\ req.printer_id = Len(config.printers) + 1
    /\ result.status = 422

\* C3: once a device call of a job has raised a fault, the response is the
\* 500 result carrying the fault's message (never 201), no further call of
\* the job is executed and the handler is not entered again for it.
C3_FaultAborts ==
    /\ [](fault # "" =>
            /\ pc = "done"
            /\ result = [status |-> 500, body |-> fault])
    /\ [][fault # "" => (pc' # "running" /\ Len(log') <= Len(log))]_vars

\* a device fault in the middle of a job, after some calls were executed
C3_Witness ==
    /\ fault \in DeviceFaults
    /\ Len(log) >= 5
    /\ result.status = 500

\* C4: at most one device session is open on a printer at any time, also for
\* requests that follow a job that ended in a device fault.
C4_AtMostOneSession ==
    \A k \in 1..Len(config.printers) : OpenSessions(k) <= 1

(***************************************************************************)
(* What a receipt job has printed.                                         *)
(***************************************************************************)
IsReceipt == req.kind = "print_receipt" /\ handle.made

Width == config.printers[handle.index].profile.max_char_row

DividerText == Repeat("-", Width)

\* the texts written on copy c (c cuts before them), in order
CopyTexts(c) ==
    LET sel == SelectSeq(log, LAMBDA e : e.copy = c /\ e.op \in {"text", "textln"})
    IN  [k \in 1..Len(sel) |-> sel[k].text]

\* the same without the divider written before the loop
Body(c) ==
    IF c = 0 /\ CopyTexts(0) # <<>> THEN Tail(CopyTexts(0)) ELSE CopyTexts(c)

\* the images and texts printed on copy c, in order
Printed(c) ==
    SelectSeq(log, LAMBDA e : e.copy = c /\ e.op \in {"image", "text", "textln"})

Row(label, amount) == create_justify_string(label, format_rupiah(amount), Width)

PaidRow == Row(BayarLabel, req.order.transaction.paid_amount)
KembalianRow == Row(KembalianLabel, req.order.transaction.change)
IsCash == req.order.transaction.payment_method = "cash"

IsLine(k, text) == log[k].op = "textln" /\ log[k].text = text

ScanLineIdx == {k \in 1..Len(log) : IsLine(k, ScanLine)}
ScanImageIdx ==
    {k \in 1..Len(log) : log[k].op = "image" /\ log[k].asset = ScanAsset}
ChangeIdx(c) ==
    LET change == KembalianRow
    IN  IF change.exc # "" THEN {}
        ELSE {k \in 1..Len(log) : IsLine(k, change.val) /\ log[k].copy = c}

\* C5: the scan block (invitation line, then the secondary image) of a
\* receipt job is on the first copy only, after that copy's thank-you line
\* and before its cut, at most once, and exactly once when the first copy is
\* cut.
C5_ScanBlockFirstCopyOnly ==
    IsReceipt =>
        /\ \A k \in ScanLineIdx \cup ScanImageIdx :
              /\ log[k].copy = 0
              /\ \E j \in 1..(k - 1) : IsLine(j, TerimaKasih) /\ log[j].copy = 0
        /\ \A k \in ScanImageIdx : \E j \in ScanLineIdx : j < k
        /\ Cardinality(ScanLineIdx) <= 1
        /\ Cardinality(ScanImageIdx) <= 1
        /\ Cuts(log) >= 1 =>
              Cardinality(ScanLineIdx) = 1 /\ Cardinality(ScanImageIdx) = 1

\* a receipt job answered 201 after three cut copies
C5_Witness ==
    /\ IsReceipt
    /\ result.status = 201
    /\ Cuts(log) = 3
    /\ Cardinality(ScanImageIdx) = 1

\* C6: the change row is written exactly when payment_method is cash: it
\* directly follows the paid-amount row and the closing divider follows it;
\* for e-wallet the divider follows the paid-amount row and no copy holds a
\* change row, whatever change is.
C6_ChangeRowIffCash ==
    IsReceipt =>
        LET paid == PaidRow
            change == KembalianRow
            divider == DividerText
            changeIdx == [c \in 0..(CopyCount - 1) |-> ChangeIdx(c)]
        IN  /\ \A k \in 1..(Len(log) - 1) :
                  (paid.exc = "" /\ IsLine(k, paid.val)) =>
                      IF IsCash
                      THEN /\ change.exc = "" => IsLine(k + 1, change.val)
                           /\ k + 2 <= Len(log) => IsLine(k + 2, divider)
                      ELSE IsLine(k + 1, divider)
            /\ \A c \in 0..(CopyCount - 1) :
                  /\ \A k \in changeIdx[c] :
                        IsCash /\ k > 1 /\ IsLine(k - 1, paid.val)
                  /\ c < Cuts(log) =>
                        Cardinality(changeIdx[c]) = (IF IsCash THEN 1 ELSE 0)

\* a cash receipt whose three copies each hold the change row
C6_Witness ==
    /\ IsReceipt
    /\ IsCash
    /\ result.status = 201
    /\ \A c \in 0..(CopyCount - 1) : Cardinality(ChangeIdx(c)) = 1

\* C7: every copy begins with the header image, sized to the profile's
\* bitmap width, followed by a divider row, before the copy's order id line.
C7_HeaderEveryCopy ==
    IsReceipt =>
        \A k \in 1..Len(log) :
            (log[k].op = "text" /\ log[k].text = NoPesanan) =>
                LET p == Printed(log[k].copy)
                IN  /\ Len(p) >= 3
                    /\ p[1].op = "image"
                    /\ p[1].asset = HeaderAsset
                    /\ p[1].width =
                           config.printers[handle.index].profile.image_width
                    /\ p[2].op = "textln"
                    /\ p[2].text = DividerText
                    /\ p[3].text = NoPesanan

ExpectedItemRow(k) ==
    LET item == req.order.items[k]
    IN  create_justify_string(
            item.name \o <<" ", "x">> \o IntText(item.quantity),
            format_rupiah(IntMul(item.price, item.quantity)), Width)

\* C8: in every copy the rows between the two blank lines are one justified
\* row per element of items, in the order of items, "{name} x{quantity}" left
\* and the formatted price times quantity right; a cut copy holds every
\* header and footer row, also when items is empty.
C8_ItemRows ==
    IsReceipt =>
        LET n == Len(req.order.items)
            o == req.order
            expected == [k \in 1..n |-> ExpectedItemRow(k)]
            divider == DividerText
        IN  \A c \in 0..(CopyCount - 1) :
                LET b == Body(c)
                IN  /\ \A k \in 1..n :
                          Len(b) >= 6 + k =>
                              /\ expected[k].exc = ""
                              /\ b[6 + k] = expected[k].val
                    /\ Len(b) >= 6 => b[6] = <<>>
                    /\ Len(b) >= 7 + n => b[7 + n] = <<>>
                    /\ c < Cuts(log) =>
                          /\ Len(b) >= 17 + n
                          /\ b[1] = NoPesanan
                          /\ b[2] = IntText(o.order_id)
                          /\ b[3] = WaktuLabel \o o.transaction.paid_at
                          /\ b[4] = KasirLabel \o o.transaction.cashier
                          /\ b[5] = divider
                          /\ b[8 + n] = divider
                          /\ b[9 + n] = Row(SubtotalLabel, o.subtotal).val
                          /\ b[10 + n] =
                                 Row(BiayaLabel, IntSub(o.total, o.subtotal)).val
                          /\ b[11 + n] = divider
                          /\ b[12 + n] = Row(TotalLabel, o.total).val
                          /\ b[13 + n] = divider
                          /\ b[14 + n] =
                                 create_justify_string(MetodeLabel,
                                     payment_method_str[o.transaction.payment_method],
                                     Width).val
                          /\ b[15 + n] = PaidRow.val
                          /\ \E k \in (16 + n)..Len(b) : b[k] = TerimaKasih
                          /\ \E k \in 1..Len(log) :
                                log[k].op = "cut" /\ log[k].copy = c

\* three cut copies of an order with two different items
C8_Witness ==
    /\ IsReceipt
    /\ Len(req.order.items) = 2
    /\ req.order.items[1] # req.order.items[2]
    /\ Cuts(log) = 3

\* C9: for length(right) <= width the result has length width: the first
\* min(length(left), width - length(right)) characters of left, spaces up to
\* position width - length(right), then right; also for width =
\* length(right).
C9_JustifyLayout ==
    (probe.done /\ Len(probe.right) <= probe.width) =>
        LET budget == probe.width - Len(probe.right)
            kept == IF Len(probe.left) < budget THEN Len(probe.left) ELSE budget
            out == probe.out
        IN  /\ out.exc = ""
            /\ Len(out.val) = probe.width
            /\ \A i \in 1..kept : out.val[i] = probe.left[i]
            /\ \A i \in (kept + 1)..budget : out.val[i] = " "
            /\ \A i \in 1..Len(probe.right) :
                  out.val[budget + i] = probe.right[i]

\* a left text cut down to nothing because right fills the row
C9_Witness ==
    /\ probe.done
    /\ probe.width = Len(probe.right)
    /\ probe.width > 0
    /\ Len(probe.left) > 0
    /\ probe.out.val = probe.right

\* positions in Body(c) of the justified rows of a copy
JustifiedPositions ==
    LET n == Len(req.order.items)
    IN  (7..(6 + n)) \cup {9 + n, 10 + n, 12 + n, 14 + n, 15 + n}
            \cup (IF IsCash THEN {16 + n} ELSE {})

\* C10: no justified row written to the device (item, subtotal, handling
\* fee, total, payment method, paid amount, change) is longer than the
\* profile's max_char_row, also for an order with a formatted value longer
\* than the row.
C10_NoRowOverflow ==
    IsReceipt =>
        \A c \in 0..(CopyCount - 1) :
            LET b == Body(c)
            IN  \A p \in JustifiedPositions :
                    p <= Len(b) => Len(b[p]) <= Width

\* an order with a value longer than the row: the job stopped at that row
C10_Witness ==
    /\ IsReceipt
    /\ fault = "Sign not allowed in string format specifier"
    /\ Len(format_rupiah(req.order.total)) > Width
    /\ Len(log) > 10

(***************************************************************************)
(* What an order-number job has sent.                                      *)
(***************************************************************************)
IsNumber == req.kind = "print_number" /\ handle.made

\* the calls of a whole order-number job, by name
NumberOps ==
    <<"image", "textln", "set_with_default", "textln", "textln",
      "set_with_default", "textln", "cut", "close">>

\* C11: a print_number job without a fault executes exactly: the header
\* image at the profile's bitmap width, a blank line, the order id centered,
\* bold, double width and height, a blank line, the instruction line centered
\* with bold and scaling off, one cut; one copy, no scan block.
C11_NumberTicket ==
    IsNumber =>
        LET n == Len(log)
        IN  /\ n <= Len(NumberOps)
            /\ \A k \in 1..n :
                  /\ log[k].op = NumberOps[k]
                  /\ log[k].op # "close" => log[k].copy = 0
            /\ n >= 1 =>
                  /\ log[1].asset = HeaderAsset
                  /\ log[1].width =
                         config.printers[handle.index].profile.image_width
            /\ n >= 2 => log[2].text = <<>>
            /\ n >= 4 =>
                  /\ log[4].text = IntText(req.order.order_id)
                  /\ log[4].align = "center"
                  /\ log[4].bold = "on"
                  /\ log[4].dbl = "on"
            /\ n >= 5 => log[5].text = <<>>
            /\ n >= 7 =>
                  /\ log[7].text = HarapLine
                  /\ log[7].align = "center"
                  /\ log[7].bold = "off"
                  /\ log[7].dbl = "off"
            /\ (pc = "done" /\ fault = "") =>
                  /\ n = Len(NumberOps)
                  /\ Cuts(log) = 1
                  /\ result.status = 201
            /\ ScanLineIdx = {} /\ ScanImageIdx = {}

\* an order-number job answered 201
C11_Witness ==
    /\ IsNumber
    /\ result.status = 201
    /\ Len(log) = Len(NumberOps)
    /\ log[4].text = <<"4", "2">>

\* an item the payload rules of the data model exclude
HasInvalidItem(order) ==
    \E k \in 1..Len(order.items) :
        LET item == order.items[k]
        IN  \/ item.quantity.neg
            \/ item.quantity.mag = <<0>>
            \/ item.price.neg /\ item.price.mag # <<0>>

\* C12: a print_receipt request with an item of quantity <= 0 or price < 0 is
\* rejected as a validation error before any directive is generated: no
\* session is opened, nothing is printed, and the answer is a client error.
C12_InvalidItemRejected ==
    (req.kind = "print_receipt" /\ HasInvalidItem(req.order)) =>
        /\ opened = 0
        /\ log = <<>>
        /\ pc = "done" => result.status = 422

\* a configuration document naming a model that printer_data does not hold
UnknownModel(file) ==
    /\ file.exists
    /\ \E k \in 1..Len(file.doc.printers) :
          file.doc.printers[k].printer_type \notin DOMAIN printer_data

\* C13: a printer definition whose model has no entry in printer_data makes
\* loading fail at startup; whenever requests are served every configured
\* printer carries the profile printer_data holds for its model; no request
\* changes the printer list or a profile.
C13_ProfilesFromMapping ==
    /\ [][(pc = "import" /\ UnknownModel(disk)) => pc' = "crashed"]_vars
    /\ [](pc \notin {"import", "crashed"} =>
            \A k \in 1..Len(config.printers) :
                /\ config.printers[k].printer_type \in DOMAIN printer_data
                /\ config.printers[k].profile =
                       printer_data[config.printers[k].printer_type])
    /\ [][pc # "import" => config' = config]_vars

\* the digits of t in threes from the right, "." between the groups
DottedGroups(t) ==
    LET n == Len(t) + ((Len(t) - 1) \div 3)
    IN  [i \in 1..n |->
            LET r == n - i
            IN  IF r % 4 = 3 THEN "." ELSE t[Len(t) - (r - (r \div 4))]]

\* C14: for every non-negative amount, format_rupiah(amount) is "Rp" and the
\* decimal digits of amount in threes from the right with "." between the
\* groups, nothing else; 1000000 gives "Rp1.000.000" and an amount below 1000
\* has no separator.
C14_GroupedDigits ==
    (shown.done /\ ~shown.amount.neg) =>
        LET digits == DigitsText(shown.amount.mag)
        IN  /\ shown.out = <<"R", "p">> \o DottedGroups(digits)
            /\ shown.amount.mag = <<1, 0, 0, 0, 0, 0, 0>> =>
                  shown.out = <<"R", "p", "1", ".", "0", "0", "0", ".",
                                "0", "0", "0">>
            /\ Len(shown.amount.mag) <= 3 =>
                  shown.out = <<"R", "p">> \o digits

(***************************************************************************)
(* The style in effect when the rows of a receipt are written.             *)
(***************************************************************************)
\* the text calls executed on copy c, with their style, without the divider
\* written before the loop
BodyLines(c) ==
    LET sel == SelectSeq(log,
                         LAMBDA e : e.copy = c /\ e.op \in {"text", "textln"})
    IN  IF c = 0 /\ sel # <<>> THEN Tail(sel) ELSE sel

\* position in BodyLines(c) of the thank-you line
ThanksPosition == 17 + Len(req.order.items) + (IF IsCash THEN 1 ELSE 0)

\* C15: in every copy bold is on when the order id's value and the total row
\* are written, and off when the order id label, the timestamp and cashier
\* lines, the item rows, the subtotal and handling-fee rows, the
\* payment-method, paid-amount and change rows and the thank-you line are
\* written.
C15_BoldState ==
    IsReceipt =>
        LET n == Len(req.order.items)
            id == IntText(req.order.order_id)
            on == {2, 12 + n}
            off == {1, 3, 4} \cup (7..(6 + n))
                     \cup {9 + n, 10 + n, 14 + n, 15 + n}
                     \cup (IF IsCash THEN {16 + n} ELSE {})
                     \cup {ThanksPosition}
        IN  \A c \in 0..2 :
                LET b == BodyLines(c)
                IN  /\ \A p \in 1..Len(b) :
                          /\ p \in on => b[p].bold = "on"
                          /\ p \in off => b[p].bold = "off"
                    /\ Len(b) >= 2 => b[1].text = NoPesanan /\ b[2].text = id
                    /\ Len(b) >= 12 + n =>
                          SubSeq(b[12 + n].text, 1, Len(TotalLabel)) = TotalLabel
                    /\ Len(b) >= ThanksPosition =>
                          b[ThanksPosition].text = TerimaKasih

\* the third copy of a receipt is complete: its order id was written bold,
\* its thank-you line plain
C15_Witness ==
    /\ IsReceipt
    /\ Cuts(log) = 3
    /\ Len(BodyLines(2)) = ThanksPosition
    /\ BodyLines(2)[2].bold = "on"
    /\ BodyLines(2)[ThanksPosition].bold = "off"

\* C16: once the session of a job has been closed no further directive of the
\* job (text, style change, image, cut) is sent to the device, in particular
\* none of copy 2 or copy 3 of a receipt.
C16_NothingAfterClose ==
    handle.made =>
        \A j \in 1..Len(log) :
            log[j].op = "close" =>
                \A k \in (j + 1)..Len(log) : log[k].op \notin WriteOps

\* C17: in every copy the alignment in effect is left when the order id line,
\* the timestamp and cashier lines, the dividers and the justified rows are
\* written, and center only when the thank-you line and the scan block are
\* written: the center set at the end of a copy does not reach the rows of
\* the next copy.
C17_AlignState ==
    IsReceipt =>
        \A c \in 0..2 :
            LET b == BodyLines(c)
            IN  \A p \in 1..Len(b) :
                    b[p].align = (IF p < ThanksPosition THEN "left" ELSE "center")

\* copy c holds every row from the order id line to the thank-you line
CompleteCopy(c) ==
    LET b == BodyLines(c)
    IN  /\ Len(b) >= ThanksPosition
        /\ b[1].text = NoPesanan
        /\ b[ThanksPosition].text = TerimaKasih

\* at most three cuts, each the last directive of a complete copy; 201 only
\* after the third
CutsEndCopies ==
    /\ Cuts(log) <= 3
    /\ \A k \in 1..Len(log) :
          log[k].op = "cut" =>
              /\ CompleteCopy(log[k].copy)
              /\ k < Len(log) => log[k + 1].op = "close"
              /\ k + 1 < Len(log) =>
                    log[k + 2].op = "text" /\ log[k + 2].text = NoPesanan
    /\ result.status = 201 =>
          /\ Cuts(log) = 3
          /\ \A c \in 0..2 : CompleteCopy(c)
          /\ log[Len(log) - 1].op = "cut"
          /\ log[Len(log)].op = "close"

\* C18: a print_receipt job with a valid selector whose device calls never
\* fault executes exactly three copies and three cuts, each cut the last
\* directive of its copy, and returns 201 only after the third cut; 201 is
\* never returned for fewer than three complete copies.
C18_ThreeCopiesUnlessDeviceFault ==
    IsReceipt =>
        /\ CutsEndCopies
        /\ (pc = "done" /\ fault \notin DeviceFaults) =>
              result.status = 201 /\ Cuts(log) = 3

\* C18, amended: the same for a job in which nothing raises, neither a
\* device call nor the layout of a row.
C18_ThreeCopies ==
    IsReceipt =>
        /\ CutsEndCopies
        /\ (pc = "done" /\ fault = "") =>
              result.status = 201 /\ Cuts(log) = 3

\* three copies of an order with an item were cut and the job answered 201
C18_Witness ==
    /\ IsReceipt
    /\ result.status = 201
    /\ Cuts(log) = 3
    /\ Len(req.order.items) = 1
    /\ ~IsCash

====
